---- MODULE Spec2Model ----
(***************************************************************************)
(* Configuration resolution engine of cdk_pipeline: the custom YAML tags   *)
(* !Sub and !Ref (yaml_handlers.py) and the ConfigLoader (config_loader.py)*)
(* with its include resolver, deep merge and account aggregation.          *)
(*                                                                         *)
(* Python objects are modelled with their identity: lists and dicts live   *)
(* in a heap and are referred to by address, so that in-place mutation     *)
(* (list.extend, dict item assignment) is seen through every reference.    *)
(* Strings are sequences of one-character strings.                         *)
(***************************************************************************)
EXTENDS Integers, Sequences, FiniteSets, TLC

VARIABLES
  disk,      \* the file system: file name -> parsed YAML document (a tree)
  client,    \* who drives the code: "aggregate", "direct", "ref", "sub", "merge"
  todo,      \* load_account_configs: files glob.glob still has to yield
  heap,      \* the Python heap: address -> list or dict object
  pc,        \* position of the running call
  config,    \* _process_includes: the `config` argument
  result,    \* _process_includes: the local `result`
  k,         \* _process_includes: index of the include the loop is at
  ret,       \* value returned by the last _process_includes call
  exc,       \* the exception that propagated, or NoExc
  calls,     \* number of _process_includes calls made on `config`
  account_configs, \* load_account_configs: the local `account_configs`
  returned,  \* what load_account_configs returned to its caller
  hist,      \* history of the calls: values seen at call and merge time
  tag,       \* tag harness: the SubTag / RefTag object under test
  bindings,  \* tag harness: the `variables` argument of resolve
  out,       \* tag harness: outcome of resolve
  operands   \* merge harness: the dicts _merge_resources is called on

vars == <<disk, client, todo, heap, pc, config, result, k, ret, exc, calls,
          account_configs, returned, hist, tag, bindings, out, operands>>

-----------------------------------------------------------------------------
(* Python values.  A list or a dict is a Ptr to a heap object.             *)

None == [t |-> "none"]
Str(s) == [t |-> "str", v |-> s]
Ptr(a) == [t |-> "ptr", a |-> a]
SubTag(value) == [t |-> "sub", v |-> value]

NoExc == [type |-> "none"]
Raise(type, what) == [type |-> type, what |-> what]

IsList(h, v) == v.t = "ptr" /\ h[v.a].t = "list"
IsDict(h, v) == v.t = "ptr" /\ h[v.a].t = "dict"

(* dict objects keep their keys in insertion order *)
EmptyDict == [t |-> "dict", ks |-> <<>>, vs |-> <<>>]
KeyIndex(d, key) == CHOOSE i \in 1..Len(d.ks) : d.ks[i] = key
Has(d, key) == \E i \in 1..Len(d.ks) : d.ks[i] = key
Get(d, key) == d.vs[KeyIndex(d, key)]
Put(d, key, v) ==
  IF Has(d, key)
  THEN [d EXCEPT !.vs[KeyIndex(d, key)] = v]
  ELSE [d EXCEPT !.ks = Append(@, key), !.vs = Append(@, v)]

RECURSIVE Concat(_)
Concat(ss) == IF ss = <<>> THEN <<>> ELSE Head(ss) \o Concat(Tail(ss))

-----------------------------------------------------------------------------
(* str.replace, str(), int()                                               *)

StartsWith(s, p) == Len(s) >= Len(p) /\ SubSeq(s, 1, Len(p)) = p
EndsWith(s, p) == Len(s) >= Len(p) /\ SubSeq(s, Len(s) - Len(p) + 1, Len(s)) = p
Contains(s, c) == \E i \in 1..Len(s) : s[i] = c

Matches(s, old) == {i \in 1..(Len(s) - Len(old) + 1) : SubSeq(s, i, i + Len(old) - 1) = old}

RECURSIVE str_replace(_, _, _)
(* str.replace(old, new): the occurrences of old from the left, not overlapping *)
str_replace(s, old, new) ==
  IF Matches(s, old) = {} THEN s
  ELSE LET i == CHOOSE m \in Matches(s, old) : \A n \in Matches(s, old) : m <= n IN
       SubSeq(s, 1, i - 1) \o new \o str_replace(SubSeq(s, i + Len(old), Len(s)), old, new)

RECURSIVE JoinComma(_)
JoinComma(ss) ==
  IF ss = <<>> THEN <<>>
  ELSE IF Len(ss) = 1 THEN ss[1]
       ELSE ss[1] \o <<",", " ">> \o JoinComma(Tail(ss))

RECURSIVE py_repr(_, _)
py_repr(h, v) ==
  CASE v.t = "str" -> <<"'">> \o v.v \o <<"'">>
    [] v.t = "none" -> <<"N", "o", "n", "e">>
    [] v.t = "sub" -> <<"<SubTag object>">>
    [] v.t = "ref" -> <<"<RefTag object>">>
    [] v.t = "ptr" ->
         LET o == h[v.a] IN
         IF o.t = "list"
         THEN <<"[">> \o JoinComma([i \in 1..Len(o.items) |-> py_repr(h, o.items[i])]) \o <<"]">>
         ELSE <<"{">> \o JoinComma([i \in 1..Len(o.ks) |->
                         <<"'">> \o o.ks[i] \o <<"'", ":", " ">> \o py_repr(h, o.vs[i])])
                  \o <<"}">>

py_str(h, v) == IF v.t = "str" THEN v.v ELSE py_repr(h, v)

Digits == <<"0", "1", "2", "3", "4", "5", "6", "7", "8", "9">>
IsDigit(c) == \E i \in 1..Len(Digits) : Digits[i] = c
DigitVal(c) == (CHOOSE i \in 1..Len(Digits) : Digits[i] = c) - 1

RECURSIVE DecimalVal(_)
DecimalVal(s) == IF s = <<>> THEN 0 ELSE 10 * DecimalVal(SubSeq(s, 1, Len(s) - 1)) + DigitVal(s[Len(s)])

AllDigits(s) == s # <<>> /\ \A i \in 1..Len(s) : IsDigit(s[i])

(* int(text) for a text without blanks or underscores: an optional sign   *)
(* and decimal digits; anything else is a ValueError                       *)
py_int(s) ==
  IF AllDigits(s) THEN [ok |-> TRUE, n |-> DecimalVal(s)]
  ELSE IF s # <<>> /\ s[1] = "-" /\ AllDigits(Tail(s)) THEN [ok |-> TRUE, n |-> 0 - DecimalVal(Tail(s))]
  ELSE IF s # <<>> /\ s[1] = "+" /\ AllDigits(Tail(s)) THEN [ok |-> TRUE, n |-> DecimalVal(Tail(s))]
  ELSE [ok |-> FALSE, n |-> 0]

-----------------------------------------------------------------------------
(* yaml_handlers.py                                                        *)

FirstIndex(s, c) == CHOOSE i \in 1..Len(s) : s[i] = c /\ \A j \in 1..(i - 1) : s[j] # c

(* RefTag.__init__ *)
RefTag(value) ==
  IF Contains(value, "[") /\ EndsWith(value, <<"]">>)
  THEN LET p == FirstIndex(value, "[")
           var_name == SubSeq(value, 1, p - 1)
           index_str == SubSeq(value, p + 1, Len(value))
           n == py_int(SubSeq(index_str, 1, Len(index_str) - 1))
       IN IF n.ok
          THEN [t |-> "ref", v |-> var_name, is_list_ref |-> TRUE, index |-> n.n]
          ELSE [t |-> "ref", v |-> value, is_list_ref |-> FALSE, index |-> 0]
  ELSE [t |-> "ref", v |-> value, is_list_ref |-> FALSE, index |-> 0]

(* list[index] with Python's negative indexes *)
ListIndex(items, i) ==
  IF 0 <= i /\ i < Len(items) THEN [ok |-> TRUE, v |-> items[i + 1]]
  ELSE IF i < 0 /\ 0 - i <= Len(items) THEN [ok |-> TRUE, v |-> items[Len(items) + i + 1]]
  ELSE [ok |-> FALSE, v |-> None]

(* a lookup with a default, as dict.get would do *)
RefTag_resolve_default(h, self, variables) ==
  IF ~Has(variables, self.v) THEN [exc |-> NoExc, v |-> None]
  ELSE LET value == Get(variables, self.v) IN
       IF self.is_list_ref /\ IsList(h, value) /\ ListIndex(h[value.a].items, self.index).ok
       THEN [exc |-> NoExc, v |-> ListIndex(h[value.a].items, self.index).v]
       ELSE IF self.is_list_ref
       THEN [exc |-> Raise(IF IsList(h, value) THEN "IndexError" ELSE "TypeError", "index"), v |-> None]
       ELSE [exc |-> NoExc, v |-> value]

(* RefTag.resolve; variables is a dict value (keys in insertion order) *)
RefTag_resolve(h, self, variables) ==
  IF ~Has(variables, self.v)
  THEN [exc |-> Raise("KeyError", "reference_not_found"), v |-> None]
  ELSE LET value == Get(variables, self.v) IN
       IF self.is_list_ref
       THEN IF ~IsList(h, value)
            THEN [exc |-> Raise("TypeError", "index_on_non_list"), v |-> None]
            ELSE LET e == ListIndex(h[value.a].items, self.index) IN
                 IF e.ok THEN [exc |-> NoExc, v |-> e.v]
                 ELSE [exc |-> Raise("IndexError", "index_out_of_range"), v |-> None]
       ELSE [exc |-> NoExc, v |-> value]

Placeholder(var_name) == <<"$", "{">> \o var_name \o <<"}">>

RECURSIVE SubLoop(_, _, _, _)
SubLoop(h, res, variables, i) ==
  IF i > Len(variables.ks) THEN res
  ELSE SubLoop(h, str_replace(res, Placeholder(variables.ks[i]), py_str(h, variables.vs[i])),
               variables, i + 1)

(* a strict substitution, which refuses a placeholder it cannot fill *)
SubTag_resolve_strict(h, self, variables) ==
  LET res == SubLoop(h, self.v, variables, 1) IN
  IF Matches(res, <<"$", "{">>) # {}
  THEN [exc |-> Raise("KeyError", "placeholder_not_found"), v |-> None]
  ELSE [exc |-> NoExc, v |-> Str(res)]

(* SubTag.resolve *)
SubTag_resolve(h, self, variables) ==
  [exc |-> NoExc, v |-> Str(SubLoop(h, self.v, variables, 1))]

-----------------------------------------------------------------------------
(* config_loader.py: loading, tag processing, deep merge                   *)

k_include == <<"i", "n", "c", "l", "u", "d", "e">>
k_config == <<"c", "o", "n", "f", "i", "g">>
k_inputs == <<"i", "n", "p", "u", "t", "s">>
k_resources == <<"r", "e", "s", "o", "u", "r", "c", "e", "s">>
k_account == <<"a", "c", "c", "o", "u", "n", "t">>
k_aws_account == <<"a", "w", "s", "_", "a", "c", "c", "o", "u", "n", "t">>
k_aws_region == <<"a", "w", "s", "_", "r", "e", "g", "i", "o", "n">>

(* A YAML document on disk is a tree: scalars, !Sub and !Ref nodes, and    *)
(* sequences and mappings holding trees inline.                            *)
TList(items) == [t |-> "list", items |-> items]
TDict(ks, vs) == [t |-> "dict", ks |-> ks, vs |-> vs]
TRef(text) == [t |-> "reftext", v |-> text]

IsContainer(node) == node.t \in {"list", "dict"}
Children(node) == IF node.t = "list" THEN node.items ELSE IF node.t = "dict" THEN node.vs ELSE <<>>

RECURSIVE Sum(_)
Sum(ns) == IF ns = <<>> THEN 0 ELSE Head(ns) + Sum(Tail(ns))

RECURSIVE Containers(_)
(* the number of sequence and mapping nodes of a tree *)
Containers(node) ==
  IF IsContainer(node)
  THEN 1 + Sum([i \in 1..Len(Children(node)) |-> Containers(Children(node)[i])])
  ELSE 0

RECURSIVE Objects(_, _)
(* the objects yaml.safe_load builds for a node when `base` objects exist   *)
(* already: those of its children in order, then the node's own; a !Ref    *)
(* node is constructed as RefTag(text)                                     *)
Constructed(node, base) ==
  IF IsContainer(node) THEN Ptr(base + Containers(node))
  ELSE IF node.t = "reftext" THEN RefTag(node.v)
  ELSE node
ChildBase(node, base, i) ==
  base + Sum([j \in 1..(i - 1) |-> Containers(Children(node)[j])])
Objects(node, base) ==
  IF ~IsContainer(node) THEN <<>>
  ELSE LET cs == Children(node)
           vals == [i \in 1..Len(cs) |-> Constructed(cs[i], ChildBase(node, base, i))]
       IN Concat([i \in 1..Len(cs) |-> Objects(cs[i], ChildBase(node, base, i))])
          \o << IF node.t = "list" THEN [t |-> "list", items |-> vals]
                ELSE [t |-> "dict", ks |-> node.ks, vs |-> vals] >>

(* yaml.safe_load with the registered constructors: every sequence and     *)
(* mapping node becomes a new list or dict object                          *)
construct(h, node) == [h |-> h \o Objects(node, Len(h)), v |-> Constructed(node, Len(h))]

(* ConfigLoader.load_yaml_file: the file is known to exist *)
load_yaml_file(h, files, path) == construct(h, files[path])

RECURSIVE process_value(_, _, _), process_all(_, _, _, _, _)
(* ConfigLoader._process_resource_variables.process_value *)
process_value(h, value, variables) ==
  IF value.t = "sub"
  THEN LET r == SubTag_resolve(h, value, variables) IN [h |-> h, v |-> r.v, exc |-> r.exc]
  ELSE IF value.t = "ref"
  THEN LET r == RefTag_resolve(h, value, variables) IN [h |-> h, v |-> r.v, exc |-> r.exc]
  ELSE IF IsDict(h, value)
  THEN LET o == h[value.a]
           r == process_all(h, o.vs, variables, 1, <<>>)
       IN IF r.exc # NoExc THEN [h |-> r.h, v |-> None, exc |-> r.exc]
          ELSE [h |-> Append(r.h, [t |-> "dict", ks |-> o.ks, vs |-> r.vs]),
                v |-> Ptr(Len(r.h) + 1), exc |-> NoExc]
  ELSE IF IsList(h, value)
  THEN LET o == h[value.a]
           r == process_all(h, o.items, variables, 1, <<>>)
       IN IF r.exc # NoExc THEN [h |-> r.h, v |-> None, exc |-> r.exc]
          ELSE [h |-> Append(r.h, [t |-> "list", items |-> r.vs]),
                v |-> Ptr(Len(r.h) + 1), exc |-> NoExc]
  ELSE [h |-> h, v |-> value, exc |-> NoExc]
process_all(h, values, variables, i, acc) ==
  IF i > Len(values) THEN [h |-> h, vs |-> acc, exc |-> NoExc]
  ELSE LET r == process_value(h, values[i], variables) IN
       IF r.exc # NoExc THEN [h |-> r.h, vs |-> acc, exc |-> r.exc]
       ELSE process_all(r.h, values, variables, i + 1, Append(acc, r.v))

(* ConfigLoader._process_resource_variables *)
process_resource_variables(h, resources, variables) == process_value(h, resources, variables)

(* one key of the loop of _merge_resources: what becomes of target[key] *)
RECURSIVE merge_resources(_, _, _), merge_items(_, _, _, _)
(* list.append in place of list.extend *)
merge_key_append(h, target, key, value) ==
  LET tgt == h[target] IN
  IF ~Has(tgt, key) THEN [h EXCEPT ![target] = Put(tgt, key, value)]
  ELSE LET cur == Get(tgt, key) IN
       IF IsList(h, cur) /\ IsList(h, value)
       THEN [h EXCEPT ![cur.a].items = Append(@, value)]
       ELSE IF IsDict(h, cur) /\ IsDict(h, value)
       THEN merge_resources(h, cur.a, value.a)
       ELSE [h EXCEPT ![target] = Put(tgt, key, value)]

merge_key(h, target, key, value) ==
  LET tgt == h[target] IN
  IF ~Has(tgt, key) THEN [h EXCEPT ![target] = Put(tgt, key, value)]
  ELSE LET cur == Get(tgt, key) IN
       IF IsList(h, cur) /\ IsList(h, value)
       THEN [h EXCEPT ![cur.a].items = @ \o h[value.a].items]
       ELSE IF IsDict(h, cur) /\ IsDict(h, value)
       THEN merge_resources(h, cur.a, value.a)
       ELSE [h EXCEPT ![target] = Put(tgt, key, value)]
merge_items(h, target, source, i) ==
  IF i > Len(h[source].ks) THEN h
  ELSE merge_items(merge_key(h, target, h[source].ks[i], h[source].vs[i]), target, source, i + 1)

(* ConfigLoader._merge_resources: target and source are dict addresses; the *)
(* heap after the in-place merge                                            *)
merge_resources(h, target, source) == merge_items(h, target, source, 1)

(* the abstract value of a Python value: what == compares *)
RECURSIVE Val(_, _)
Val(h, v) ==
  IF v.t # "ptr" THEN v
  ELSE LET o == h[v.a] IN
       IF o.t = "list"
       THEN [t |-> "list", items |-> [i \in 1..Len(o.items) |-> Val(h, o.items[i])]]
       ELSE [t |-> "dict", m |-> [key \in {o.ks[i] : i \in 1..Len(o.ks)} |-> Val(h, Get(o, key))]]

-----------------------------------------------------------------------------
(* config_loader.py: _process_includes                                     *)

RECURSIVE dict_update(_, _, _)
(* dict.update: the items of d from the i-th on, put into acc *)
dict_update(acc, d, i) ==
  IF i > Len(d.ks) THEN acc ELSE dict_update(Put(acc, d.ks[i], d.vs[i]), d, i + 1)

RECURSIVE build_input_vars(_, _, _, _)
(* the loop that converts the include's inputs to the dict input_vars *)
build_input_vars(h, items, i, acc) ==
  IF i > Len(items) THEN acc
  ELSE IF IsDict(h, items[i])
       THEN build_input_vars(h, items, i + 1, dict_update(acc, h[items[i].a], 1))
       ELSE build_input_vars(h, items, i + 1, Put(acc, items[i].v, None))

NameSet(h, lst) == {h[lst.a].items[i].v : i \in 1..Len(h[lst.a].items)}
KeySet(d) == {d.ks[i] : i \in 1..Len(d.ks)}

MissingInputs(missing) ==
  [type |-> "ValueError", what |-> "missing_required_inputs", missing |-> missing]

(* the difference taken the wrong way round *)
missing_inputs_swapped(required_inputs, provided_inputs) == provided_inputs \ required_inputs

(* missing_inputs = required_inputs - provided_inputs *)
missing_inputs_of(required_inputs, provided_inputs) == required_inputs \ provided_inputs

(* the copy and the resources key made before the include key is looked at *)
begin_includes_eager(h, cfg) ==
  LET copy == Len(h) + 1
      h1 == Append(h, h[cfg.a])
      h2 == IF Has(h1[copy], k_resources) THEN h1
            ELSE Append([h1 EXCEPT ![copy] = Put(h1[copy], k_resources, Ptr(copy + 1))], EmptyDict)
  IN [h |-> h2, identity |-> ~Has(h[cfg.a], k_include), result |-> Ptr(copy)]

(* _process_includes up to the loop: the early return, the copy, and the   *)
(* initialisation of result['resources']                                   *)
begin_includes(h, cfg) ==
  IF ~Has(h[cfg.a], k_include)
  THEN [h |-> h, identity |-> TRUE, result |-> cfg]
  ELSE LET copy == Len(h) + 1
           h1 == Append(h, h[cfg.a])
       IN IF Has(h1[copy], k_resources)
          THEN [h |-> h1, identity |-> FALSE, result |-> Ptr(copy)]
          ELSE [h |-> Append([h1 EXCEPT ![copy] = Put(h1[copy], k_resources, Ptr(copy + 1))],
                             EmptyDict),
                identity |-> FALSE, result |-> Ptr(copy)]

IncludeList(h, cfg) == h[Get(h[cfg.a], k_include).a].items

(* input_vars created once, before the loop, and never cleared *)
include_step_leaky(h, files, cfg, res, i) ==
  LET include == h[IncludeList(h, cfg)[i].a]
      include_path == Get(include, k_config).v
  IN
  IF include_path \notin DOMAIN files
  THEN [h |-> h, exc |-> Raise("FileNotFoundError", "included_file_not_found"),
        pre |-> h, source |-> None]
  ELSE
  LET ld == load_yaml_file(h, files, include_path)
      included_config == ld.h[ld.v.a]
  IN
  IF ~Has(included_config, k_inputs)
  THEN [h |-> ld.h, exc |-> Raise("ValueError", "missing_inputs_section"),
        pre |-> ld.h, source |-> None]
  ELSE IF ~Has(included_config, k_resources)
  THEN [h |-> ld.h, exc |-> Raise("ValueError", "missing_resources_section"),
        pre |-> ld.h, source |-> None]
  ELSE
  LET items == Concat([j \in 1..i |->
                 LET d == h[IncludeList(h, cfg)[j].a] IN
                 IF Has(d, k_inputs) THEN ld.h[Get(d, k_inputs).a].items ELSE <<>>])
      input_vars == build_input_vars(ld.h, items, 1, EmptyDict)
      required_inputs == NameSet(ld.h, Get(included_config, k_inputs))
      provided_inputs == KeySet(input_vars)
      missing_inputs == missing_inputs_of(required_inputs, provided_inputs)
  IN
  IF missing_inputs # {}
  THEN [h |-> ld.h, exc |-> MissingInputs(missing_inputs), pre |-> ld.h, source |-> None]
  ELSE
  LET pr == process_resource_variables(ld.h, Get(included_config, k_resources), input_vars) IN
  IF pr.exc # NoExc
  THEN [h |-> pr.h, exc |-> pr.exc, pre |-> pr.h, source |-> None]
  ELSE [h |-> merge_resources(pr.h, Get(pr.h[res.a], k_resources).a, pr.v.a),
        exc |-> NoExc, pre |-> pr.h, source |-> pr.v]

(* one iteration of the loop over config['include']: the heap afterwards,  *)
(* the exception it raised if any, the processed resources it merged and   *)
(* the heap as it was when _merge_resources was called                     *)
include_step(h, files, cfg, res, i) ==
  LET include == h[IncludeList(h, cfg)[i].a]
      include_path == Get(include, k_config).v
  IN
  IF include_path \notin DOMAIN files
  THEN [h |-> h, exc |-> Raise("FileNotFoundError", "included_file_not_found"),
        pre |-> h, source |-> None]
  ELSE
  LET ld == load_yaml_file(h, files, include_path)
      included_config == ld.h[ld.v.a]
  IN
  IF ~Has(included_config, k_inputs)
  THEN [h |-> ld.h, exc |-> Raise("ValueError", "missing_inputs_section"),
        pre |-> ld.h, source |-> None]
  ELSE IF ~Has(included_config, k_resources)
  THEN [h |-> ld.h, exc |-> Raise("ValueError", "missing_resources_section"),
        pre |-> ld.h, source |-> None]
  ELSE
  LET items == IF Has(include, k_inputs) THEN ld.h[Get(include, k_inputs).a].items ELSE <<>>
      input_vars == build_input_vars(ld.h, items, 1, EmptyDict)
      required_inputs == NameSet(ld.h, Get(included_config, k_inputs))
      provided_inputs == KeySet(input_vars)
      missing_inputs == missing_inputs_of(required_inputs, provided_inputs)
  IN
  IF missing_inputs # {}
  THEN [h |-> ld.h, exc |-> MissingInputs(missing_inputs), pre |-> ld.h, source |-> None]
  ELSE
  LET pr == process_resource_variables(ld.h, Get(included_config, k_resources), input_vars) IN
  IF pr.exc # NoExc
  THEN [h |-> pr.h, exc |-> pr.exc, pre |-> pr.h, source |-> None]
  ELSE [h |-> merge_resources(pr.h, Get(pr.h[res.a], k_resources).a, pr.v.a),
        exc |-> NoExc, pre |-> pr.h, source |-> pr.v]

-----------------------------------------------------------------------------
(* The files on disk                                                       *)

MaxIncludes == 2
MaxCalls == 2
MaxFiles == 2

Binding(name, value) == TDict(<<name>>, <<value>>)
Directive(path, inputs) == TDict(<<k_config, k_inputs>>, <<Str(path), TList(inputs)>>)
DirectiveNoInputs(path) == TDict(<<k_config>>, <<Str(path)>>)
Fragment(inputs, resources) ==
  TDict(<<k_inputs, k_resources>>, <<TList([i \in 1..Len(inputs) |-> Str(inputs[i])]), resources>>)

Prod == Str(<<"p", "r", "o", "d">>)
Zones == TList(<<Str(<<"u", "1">>), Str(<<"u", "2">>)>>)

(* the shared fragments; f0 is referred to and does not exist *)
Fragments ==
  (<<"f", "1">> :> Fragment(<<>>, TDict(<<<<"b">>, <<"n">>>>,
                                        <<TList(<<Str(<<"a">>)>>), Str(<<"s", "1">>)>>)))
  @@ (<<"f", "2">> :> Fragment(<<>>, TDict(<<<<"b">>, <<"n">>, <<"m">>>>,
        <<TList(<<Str(<<"b">>)>>), Str(<<"s", "2">>),
          TDict(<<<<"q">>, <<"l">>>>, <<Str(<<"w">>), TList(<<Str(<<"j">>)>>)>>)>>)))
  @@ (<<"f", "3">> :> Fragment(<< <<"e">> >>, TDict(<<<<"n">>, <<"m">>>>,
        <<SubTag(<<"p", "-", "$", "{", "e", "}", "-", "$", "{", "u", "}">>),
          TDict(<<<<"q">>, <<"l">>>>, <<Str(<<"v">>), TList(<<Str(<<"i">>)>>)>>)>>)))
  @@ (<<"f", "4">> :> Fragment(<< <<"z">> >>, TDict(<<<<"b">>, <<"c">>>>,
        <<TRef(<<"z">>), TRef(<<"z">>)>>)))
  @@ (<<"f", "5">> :> Fragment(<< <<"z">> >>, TDict(<<<<"n">>>>,
        <<TRef(<<"z", "[", "1", "]">>)>>)))
  @@ (<<"f", "6">> :> Fragment(<<>>, TDict(<<<<"b">>, <<"m">>>>,
        <<Str(<<"f", "l", "a", "t">>), TList(<<Str(<<"r">>)>>)>>)))
  @@ (<<"f", "7">> :> TDict(<<k_resources>>, <<TDict(<<<<"b">>>>, <<TList(<<Str(<<"a">>)>>)>>)>>))
  @@ (<<"f", "8">> :> TDict(<<k_inputs>>, <<TList(<<Str(<<"e">>)>>)>>))
  @@ (<<"f", "9">> :> Fragment(<<>>, TDict(<<<<"n">>>>, <<TRef(<<"e">>)>>)))
  @@ (<<"f", "a">> :> Fragment(<<>>, TDict(<<<<"n">>>>,
        <<SubTag(<<"x", "-", "$", "{", "e", "}">>)>>)))

(* the include directives an account document may list *)
Directives ==
  { DirectiveNoInputs(<<"f", "1">>),
    Directive(<<"f", "1">>, <<Binding(<<"o">>, Str(<<"x">>))>>),
    Directive(<<"f", "2">>, <<>>),
    Directive(<<"f", "3">>, <<Binding(<<"e">>, Prod)>>),
    Directive(<<"f", "3">>, <<Str(<<"e">>)>>),
    Directive(<<"f", "3">>, <<Binding(<<"o">>, Str(<<"x">>))>>),
    Directive(<<"f", "4">>, <<Binding(<<"z">>, Zones)>>),
    Directive(<<"f", "5">>, <<Binding(<<"z">>, Zones), Binding(<<"o">>, Str(<<"x">>))>>),
    Directive(<<"f", "5">>, <<Binding(<<"z">>, Str(<<"s">>))>>),
    Directive(<<"f", "5">>, <<Binding(<<"z">>, TList(<<Str(<<"u", "1">>)>>))>>),
    DirectiveNoInputs(<<"f", "6">>),
    DirectiveNoInputs(<<"f", "7">>),
    Directive(<<"f", "8">>, <<Binding(<<"e">>, Prod)>>),
    DirectiveNoInputs(<<"f", "9">>),
    DirectiveNoInputs(<<"f", "a">>),
    DirectiveNoInputs(<<"f", "0">>) }

IncludeLists == UNION {[1..n -> Directives] : n \in 0..MaxIncludes}

(* the resources an account document may declare itself *)
OwnResources ==
  TDict(<<<<"b">>, <<"n">>, <<"m">>, <<"t">>>>,
        <<TList(<<Str(<<"x">>)>>), Str(<<"s", "0">>), TDict(<<<<"q">>>>, <<Str(<<"u">>)>>),
          SubTag(<<"o", "-", "$", "{", "e", "}">>)>>)

Account == TDict(<<k_aws_account, k_aws_region>>, <<Str(<<"1", "2">>), Str(<<"e", "u">>)>>)

(* an account document: each of its three sections is optional *)
Document(account, include, resources) ==
  LET a == IF account THEN TDict(<<k_account>>, <<Account>>) ELSE EmptyDict
      i == IF include.present THEN Put(a, k_include, TList(include.list)) ELSE a
  IN IF resources THEN Put(i, k_resources, OwnResources) ELSE i

Documents ==
  {Document(TRUE, [present |-> FALSE, list |-> <<>>], r) : r \in BOOLEAN}
  \cup {Document(TRUE, [present |-> TRUE, list |-> l], r) : l \in IncludeLists, r \in BOOLEAN}

(* the account documents a configuration directory may hold *)
AccountFiles ==
  (<<"a", "1">> :> Document(TRUE, [present |-> FALSE, list |-> <<>>], TRUE))
  @@ (<<"a", "2">> :> Document(TRUE, [present |-> TRUE, list |->
        <<DirectiveNoInputs(<<"f", "1">>), Directive(<<"f", "3">>, <<Binding(<<"e">>, Prod)>>)>>], TRUE))
  @@ (<<"a", "3">> :> Document(TRUE, [present |-> TRUE, list |->
        <<Directive(<<"f", "3">>, <<Binding(<<"o">>, Str(<<"x">>))>>)>>], FALSE))
  @@ (<<"a", "4">> :> Document(FALSE, [present |-> TRUE, list |->
        <<DirectiveNoInputs(<<"f", "1">>), DirectiveNoInputs(<<"f", "7">>)>>], TRUE))
  @@ (<<"a", "5">> :> Document(TRUE, [present |-> TRUE, list |->
        <<DirectiveNoInputs(<<"f", "0">>)>>], FALSE))
  @@ (<<"a", "6">> :> Document(FALSE, [present |-> TRUE, list |->
        <<Directive(<<"f", "4">>, <<Binding(<<"z">>, Zones)>>)>>], FALSE))

(* the orders in which glob.glob may yield the files of a directory *)
ScanOrders ==
  {o \in UNION {[1..n -> DOMAIN AccountFiles] : n \in 0..MaxFiles} :
     \A i, j \in 1..Len(o) : i # j => o[i] # o[j]}

-----------------------------------------------------------------------------
(* The state machine                                                       *)

NoHist == [loaded |-> None, before |-> None, first |-> None, base |-> None, merges |-> <<>>]

InitCommon ==
  /\ heap = <<>> /\ config = None /\ result = None /\ k = 0 /\ ret = None
  /\ exc = NoExc /\ calls = 0 /\ account_configs = <<>> /\ returned = None
  /\ hist = NoHist /\ tag = None /\ bindings = EmptyDict /\ out = None
  /\ operands = None

(* a caller that loads one document and resolves its includes itself *)
InitDirect ==
  /\ client = "direct"
  /\ \E d \in Documents : disk = (<<"d">> :> d) @@ Fragments
  /\ todo = << <<"d">> >>
  /\ pc = "start"
  /\ InitCommon

(* load_account_configs over a configuration directory *)
InitAggregate ==
  /\ client = "aggregate"
  /\ \E o \in ScanOrders :
       /\ todo = o
       /\ disk = [f \in {o[i] : i \in 1..Len(o)} |-> AccountFiles[f]] @@ Fragments
  /\ pc = "scan"
  /\ InitCommon

Init == InitDirect \/ InitAggregate

Resources(h, doc) == Get(h[doc.a], k_resources)

(* entering _process_includes(cfg) on heap h: the frame, or the early return *)
Enter(h, cfg, back) ==
  LET b == begin_includes(h, cfg) IN
  /\ heap' = b.h
  /\ config' = cfg
  /\ calls' = calls + 1
  /\ IF b.identity
     THEN /\ ret' = b.result
          /\ pc' = back
          /\ UNCHANGED <<result, k>>
          /\ hist' = [hist EXCEPT !.before = Val(h, cfg), !.base = None, !.merges = <<>>,
                                  !.first = IF calls = 0 THEN Val(b.h, b.result) ELSE @]
     ELSE /\ result' = b.result
          /\ k' = 1
          /\ pc' = "includes"
          /\ UNCHANGED ret
          /\ hist' = [hist EXCEPT !.before = Val(h, cfg), !.merges = <<>>,
                                  !.base = Val(b.h, Resources(b.h, b.result))]

(* the direct caller: yaml_content = load_yaml_file(config_path) *)
LoadDocument ==
  /\ client = "direct" /\ pc = "start"
  /\ LET ld == load_yaml_file(heap, disk, Head(todo)) IN
       /\ heap' = ld.h
       /\ config' = ld.v
       /\ hist' = [hist EXCEPT !.loaded = Val(ld.h, ld.v)]
  /\ pc' = "idle"
  /\ UNCHANGED <<disk, client, operands, todo, result, k, ret, exc, calls, account_configs,
                 returned, tag, bindings, out>>

(* the direct caller calls _process_includes on the document it holds *)
Call ==
  /\ client = "direct" /\ pc = "idle" /\ calls < MaxCalls
  /\ Enter(heap, config, "idle")
  /\ UNCHANGED <<disk, client, operands, todo, exc, account_configs, returned, tag, bindings, out>>

(* the loop of load_account_configs catching the error and going on to the *)
(* next file                                                               *)
IncludeStep_swallow ==
  /\ pc = "includes" /\ k <= Len(IncludeList(heap, config))
  /\ LET s == include_step(heap, disk, config, result, k) IN
       /\ heap' = s.h
       /\ IF s.exc # NoExc
          THEN /\ exc' = s.exc
               /\ pc' = IF client = "aggregate" THEN "scan" ELSE "raised"
               /\ todo' = IF client = "aggregate" THEN Tail(todo) ELSE todo
               /\ UNCHANGED <<k, hist>>
          ELSE /\ k' = k + 1
               /\ hist' = [hist EXCEPT !.merges = Append(@,
                             [target |-> Val(s.pre, Resources(s.pre, result)),
                              source |-> Val(s.pre, s.source),
                              after |-> Val(s.h, Resources(s.h, result))])]
               /\ UNCHANGED <<exc, pc, todo>>
  /\ UNCHANGED <<disk, client, operands, config, result, ret, calls, account_configs,
                 returned, tag, bindings, out>>

(* _process_includes: one iteration of `for include in config['include']` *)
IncludeStep ==
  /\ pc = "includes" /\ k <= Len(IncludeList(heap, config))
  /\ LET s == include_step(heap, disk, config, result, k) IN
       /\ heap' = s.h
       /\ IF s.exc # NoExc
          THEN /\ exc' = s.exc
               /\ pc' = "raised"
               /\ UNCHANGED <<k, hist>>
          ELSE /\ k' = k + 1
               /\ hist' = [hist EXCEPT !.merges = Append(@,
                             [target |-> Val(s.pre, Resources(s.pre, result)),
                              source |-> Val(s.pre, s.source),
                              after |-> Val(s.h, Resources(s.h, result))])]
               /\ UNCHANGED <<exc, pc>>
  /\ UNCHANGED <<disk, client, operands, todo, config, result, ret, calls, account_configs,
                 returned, tag, bindings, out>>

(* _process_includes: `return result` after the loop *)
Return ==
  /\ pc = "includes" /\ k > Len(IncludeList(heap, config))
  /\ ret' = result
  /\ pc' = IF client = "direct" THEN "idle" ELSE "store"
  /\ hist' = [hist EXCEPT !.first = IF calls = 1 THEN Val(heap, result) ELSE @]
  /\ UNCHANGED <<disk, client, operands, todo, heap, config, result, k, exc, calls, account_configs,
                 returned, tag, bindings, out>>

(* load_account_configs: the next file of the scan is loaded and, if it    *)
(* has an include key, _process_includes is entered                        *)
LoadNext ==
  /\ client = "aggregate" /\ pc = "scan" /\ todo # <<>>
  /\ LET ld == load_yaml_file(heap, disk, Head(todo)) IN
       IF Has(ld.h[ld.v.a], k_include)
       THEN Enter(ld.h, ld.v, "store")
       ELSE /\ heap' = ld.h
            /\ config' = ld.v
            /\ pc' = "store"
            /\ UNCHANGED <<result, k, ret, calls, hist>>
  /\ UNCHANGED <<disk, client, operands, todo, exc, account_configs, returned, tag, bindings, out>>

DictGet(h, d, key, default) == IF Has(h[d.a], key) THEN Get(h[d.a], key) ELSE default

(* load_account_configs: the record of the file is stored *)
Store ==
  /\ client = "aggregate" /\ pc = "store"
  /\ LET config_path == Head(todo)
         yaml_content == IF Has(heap[config.a], k_include) THEN ret ELSE config
         account == DictGet(heap, yaml_content, k_account, None)
     IN account_configs' = Append(account_configs,
          [config_name |-> config_path,
           config_path |-> config_path,
           full_config |-> yaml_content,
           aws_account |-> IF account = None THEN None ELSE DictGet(heap, account, k_aws_account, None),
           aws_region |-> IF account = None THEN None ELSE DictGet(heap, account, k_aws_region, None)])
  /\ todo' = Tail(todo)
  /\ pc' = "scan"
  /\ calls' = 0
  /\ UNCHANGED <<disk, client, operands, heap, config, result, k, ret, exc, returned, hist,
                 tag, bindings, out>>

(* load_account_configs: `return account_configs` *)
Finish ==
  /\ client = "aggregate" /\ pc = "scan" /\ todo = <<>>
  /\ returned' = [t |-> "configs", records |-> account_configs]
  /\ pc' = "done"
  /\ UNCHANGED <<disk, client, operands, todo, heap, config, result, k, ret, exc, calls,
                 account_configs, hist, tag, bindings, out>>

Next == LoadDocument \/ Call \/ IncludeStep \/ Return \/ LoadNext \/ Store \/ Finish

Spec == Init /\ [][Next]_vars

-----------------------------------------------------------------------------
(* The tags on their own: a scalar node is constructed by from_yaml and    *)
(* the tag object is resolved against a dict of variables.                 *)

MaxIndex == 2
MaxLen == 2
MaxPieces == 3

TSub(text) == [t |-> "subtext", v |-> text]

(* str(i) of an index *)
IndexText(i) ==
  IF i < 0 THEN <<"-", Digits[1 - i]>> ELSE <<Digits[i + 1]>>

Elements(n) == [i \in 1..n |-> Str(<<"u", Digits[i + 1]>>)]

RefTexts ==
  {<<name>> \o <<"[">> \o IndexText(i) \o <<"]">> : name \in {"z", "y"}, i \in (0 - MaxIndex)..MaxIndex}
  \cup { <<"z">>, <<"y">>, <<"[", "0", "]">>, <<"z", "[", "x", "]">>, <<"z", "[", "1">>,
         <<"z", "[", "0", "]", "[", "1", "]">>, <<"z", "[", "]">>, <<"z", "[", "+", "1", "]">> }

RefBindings ==
  {TDict(<< <<"z">> >>, << TList(Elements(n)) >>) : n \in 0..MaxLen}
  \cup { TDict(<<>>, <<>>),
         TDict(<< <<"z">> >>, << Str(<<"u", "1">>) >>),
         TDict(<< <<"z">> >>, << None >>),
         TDict(<< <<"z">> >>, << TDict(<< <<"q">> >>, << Str(<<"w">>) >>) >>),
         TDict(<< <<"z">> >>, << TList(<< TList(Elements(1)), TList(Elements(2)) >>) >>),
         TDict(<< <<>> >>, << TList(Elements(1)) >>),
         TDict(<< <<"z", "[", "x", "]">> >>, << Str(<<"w">>) >>),
         TDict(<< <<"y">>, <<"z">> >>, << TList(Elements(1)), TList(Elements(MaxLen)) >>) }

InitTag ==
  /\ disk = <<>> /\ todo = <<>> /\ config = None /\ result = None /\ k = 0
  /\ ret = None /\ exc = NoExc /\ calls = 0 /\ account_configs = <<>>
  /\ returned = None /\ hist = NoHist /\ out = None /\ pc = "node"
  /\ operands = None

InitRef ==
  /\ client = "ref"
  /\ \E text \in RefTexts : tag = TRef(text)
  /\ \E b \in RefBindings :
       LET c == construct(<<>>, b) IN heap = c.h /\ bindings = c.h[c.v.a]
  /\ InitTag

(* RefTag.from_yaml *)
RefFromYaml ==
  /\ client = "ref" /\ pc = "node"
  /\ tag' = RefTag(tag.v)
  /\ pc' = "tag"
  /\ UNCHANGED <<disk, client, operands, todo, heap, config, result, k, ret, exc, calls,
                 account_configs, returned, hist, bindings, out>>

(* RefTag.resolve(variables) *)
RefResolve ==
  /\ client = "ref" /\ pc = "tag"
  /\ out' = RefTag_resolve(heap, tag, bindings)
  /\ pc' = "resolved"
  /\ UNCHANGED <<disk, client, operands, todo, heap, config, result, k, ret, exc, calls,
                 account_configs, returned, hist, tag, bindings>>

NextRef == RefFromYaml \/ RefResolve

SpecRef == InitRef /\ [][NextRef]_vars

Pieces ==
  { <<"p", "-">>, Placeholder(<<"e">>), Placeholder(<<"r">>), Placeholder(<<"u">>),
    <<"$", "{">>, <<"}">> }

Templates ==
  UNION {{Concat(ps) : ps \in [1..n -> Pieces]} : n \in 0..MaxPieces}

SubBindings ==
  { TDict(<<>>, <<>>),
    TDict(<< <<"e">> >>, << Str(<<"p", "r", "o", "d">>) >>),
    TDict(<< <<"e">>, <<"r">> >>, << Str(<<"p", "r", "o", "d">>), Str(<<"e", "u">>) >>),
    TDict(<< <<"r">>, <<"e">> >>, << Str(<<"e", "u">>), Str(<<"r">>) >>),
    TDict(<< <<"e">>, <<"r">> >>, << Str(Placeholder(<<"r">>)), Str(<<"e", "u">>) >>),
    TDict(<< <<"r">>, <<"e">> >>, << Str(<<"e", "u">>), Str(Placeholder(<<"r">>)) >>),
    TDict(<< <<"e">>, <<"r">> >>, << Str(<<"r">>), Str(<<>>) >>),
    TDict(<< <<"e">>, <<"r">> >>, << None, TList(Elements(2)) >>) }

InitSub ==
  /\ client = "sub"
  /\ \E text \in Templates : tag = TSub(text)
  /\ \E b \in SubBindings :
       LET c == construct(<<>>, b) IN heap = c.h /\ bindings = c.h[c.v.a]
  /\ InitTag

(* SubTag.from_yaml *)
SubFromYaml ==
  /\ client = "sub" /\ pc = "node"
  /\ tag' = SubTag(tag.v)
  /\ pc' = "tag"
  /\ UNCHANGED <<disk, client, operands, todo, heap, config, result, k, ret, exc, calls,
                 account_configs, returned, hist, bindings, out>>

(* SubTag.resolve(variables) *)
SubResolve ==
  /\ client = "sub" /\ pc = "tag"
  /\ out' = SubTag_resolve(heap, tag, bindings)
  /\ pc' = "resolved"
  /\ UNCHANGED <<disk, client, operands, todo, heap, config, result, k, ret, exc, calls,
                 account_configs, returned, hist, tag, bindings>>

NextSub == SubFromYaml \/ SubResolve

SpecSub == InitSub /\ [][NextSub]_vars

-----------------------------------------------------------------------------
(* _merge_resources on its own: three resource mappings T, A and B, each   *)
(* built twice, merged as (T <- A) <- B on one side and as T <- (A <- B)   *)
(* on the other.                                                           *)

MergeValues ==
  { TList(<<Str(<<"a">>)>>), TList(<<Str(<<"b">>)>>), Str(<<"s">>), None,
    TDict(<< <<"q">> >>, << Str(<<"w">>) >>),
    TDict(<< <<"q">> >>, << TList(<<Str(<<"j">>)>>) >>) }

MergeMaps ==
  { TDict(<<>>, <<>>) }
  \cup { TDict(<< <<"k">> >>, <<v>>) : v \in MergeValues }
  \cup { TDict(<< <<"k">>, <<"n">> >>, << TList(<<Str(<<"c">>)>>), Str(<<"s", "1">>) >>),
         TDict(<< <<"n">>, <<"k">> >>, << Str(<<"s", "2">>), TDict(<< <<"q">> >>, << Str(<<"v">>) >>) >>) }

InitMerge ==
  /\ client = "merge"
  /\ \E T \in MergeMaps, A \in MergeMaps, B \in MergeMaps :
       LET c1 == construct(<<>>, T)
           c2 == construct(c1.h, A)
           c3 == construct(c2.h, B)
           c4 == construct(c3.h, T)
           c5 == construct(c4.h, A)
           c6 == construct(c5.h, B)
       IN /\ heap = c6.h
          /\ operands = [T |-> c1.v.a, A |-> c2.v.a, B |-> c3.v.a,
                         T2 |-> c4.v.a, A2 |-> c5.v.a, B2 |-> c6.v.a]
          /\ hist = [T |-> Val(c6.h, c1.v), A |-> Val(c6.h, c2.v), B |-> Val(c6.h, c3.v)]
  /\ disk = <<>> /\ todo = <<>> /\ config = None /\ result = None /\ k = 0
  /\ ret = None /\ exc = NoExc /\ calls = 0 /\ account_configs = <<>>
  /\ returned = None /\ tag = None /\ bindings = EmptyDict /\ out = None
  /\ pc = "operands"

(* _merge_resources(T, A) *)
MergeFirst ==
  /\ client = "merge" /\ pc = "operands"
  /\ heap' = merge_resources(heap, operands.T, operands.A)
  /\ pc' = "first"
  /\ UNCHANGED <<disk, client, operands, todo, config, result, k, ret, exc, calls,
                 account_configs, returned, hist, tag, bindings, out>>

(* _merge_resources(T, B) on the result *)
MergeSecond ==
  /\ client = "merge" /\ pc = "first"
  /\ heap' = merge_resources(heap, operands.T, operands.B)
  /\ pc' = "second"
  /\ UNCHANGED <<disk, client, operands, todo, config, result, k, ret, exc, calls,
                 account_configs, returned, hist, tag, bindings, out>>

(* _merge_resources(A, B) on the other copies *)
MergeCombine ==
  /\ client = "merge" /\ pc = "second"
  /\ heap' = merge_resources(heap, operands.A2, operands.B2)
  /\ pc' = "combined"
  /\ UNCHANGED <<disk, client, operands, todo, config, result, k, ret, exc, calls,
                 account_configs, returned, hist, tag, bindings, out>>

(* _merge_resources(T, A) with the combined A *)
MergeCombined ==
  /\ client = "merge" /\ pc = "combined"
  /\ heap' = merge_resources(heap, operands.T2, operands.A2)
  /\ pc' = "merged"
  /\ UNCHANGED <<disk, client, operands, todo, config, result, k, ret, exc, calls,
                 account_configs, returned, hist, tag, bindings, out>>

NextMerge == MergeFirst \/ MergeSecond \/ MergeCombine \/ MergeCombined

SpecMerge == InitMerge /\ [][NextMerge]_vars

-----------------------------------------------------------------------------
(* What the files on disk say, read off the trees without running the code *)

RECURSIVE TreeVal(_)
TreeVal(node) ==
  CASE node.t = "list" -> [t |-> "list", items |-> [i \in 1..Len(node.items) |-> TreeVal(node.items[i])]]
    [] node.t = "dict" -> [t |-> "dict", m |-> [key \in KeySet(node) |-> TreeVal(Get(node, key))]]
    [] node.t = "reftext" -> RefTag(node.v)
    [] OTHER -> node

CurrentFile == disk[Head(todo)]
DirectiveAt(j) == Get(CurrentFile, k_include).items[j]
FragmentPath(j) == Get(DirectiveAt(j), k_config).v
WellFormed(j) ==
  /\ FragmentPath(j) \in DOMAIN disk
  /\ Has(disk[FragmentPath(j)], k_inputs)
  /\ Has(disk[FragmentPath(j)], k_resources)
Required(j) ==
  LET names == Get(disk[FragmentPath(j)], k_inputs).items IN {names[i].v : i \in 1..Len(names)}
BoundAt(j) ==
  LET d == DirectiveAt(j)
      items == IF Has(d, k_inputs) THEN Get(d, k_inputs).items ELSE <<>>
  IN UNION {IF items[i].t = "dict" THEN KeySet(items[i]) ELSE {items[i].v} : i \in 1..Len(items)}

InLoop == pc \in {"includes", "raised"}
HasInclude == config # None /\ Has(heap[config.a], k_include)
DirectReturned == client = "direct" /\ pc = "idle" /\ calls >= 1
DocResources(val) == IF k_resources \in DOMAIN val.m THEN val.m[k_resources] ELSE None

-----------------------------------------------------------------------------
(* C1: an include whose fragment exists and declares inputs and resources  *)
(* fails with MissingInputs exactly when a declared input is not bound at  *)
(* the include site (a bare name binds); the reported set is required      *)
(* minus provided; names the fragment does not declare never cause it.     *)
C1_MissingInputsExactly ==
  InLoop =>
    /\ \A j \in 1..(k - 1) : WellFormed(j) /\ Required(j) \subseteq BoundAt(j)
    /\ (pc = "raised" /\ WellFormed(k)) =>
         ((exc.what = "missing_required_inputs") <=> (Required(k) \ BoundAt(k) # {}))
    /\ (pc = "raised" /\ exc.what = "missing_required_inputs") =>
         /\ WellFormed(k)
         /\ exc.type = "ValueError"
         /\ exc.missing = Required(k) \ BoundAt(k)

(* the second include lacks an input after a first include was accepted    *)
(* with an input its fragment does not declare                             *)
C1_Witness ==
  /\ pc = "raised" /\ k = 2 /\ exc.what = "missing_required_inputs"
  /\ Required(1) = {} /\ BoundAt(1) # {}

-----------------------------------------------------------------------------
(* C2: when _process_includes fails on a fragment that lacks inputs or     *)
(* resources, the resources of the document passed in are what they were   *)
(* before the call, wherever the malformed include stands in the list.     *)
C2_NoPartialMerge ==
  (pc = "raised" /\ exc.what \in {"missing_inputs_section", "missing_resources_section"}) =>
    DocResources(Val(heap, config)) = DocResources(hist.before)

-----------------------------------------------------------------------------
(* the values the document and the includes of the call contributed under  *)
(* a key of resources, in declaration order                                *)
Contributions(key) ==
  LET all == <<hist.base.m>> \o [i \in 1..Len(hist.merges) |-> hist.merges[i].source.m]
      having == SelectSeq(all, LAMBDA m : key \in DOMAIN m)
  IN [i \in 1..Len(having) |-> having[i][key]]

ResolvedResources == Val(heap, Resources(heap, ret)).m

(* C3: includes merge in declaration order on top of the document's own    *)
(* resources: a key that holds lists resolves to the document's items      *)
(* followed by each include's items in order, and a key that holds         *)
(* non-containers resolves to the value of the last include that sets it.  *)
C3_DeclarationOrder ==
  ((DirectReturned \/ pc = "store") /\ HasInclude) =>
    \A key \in DOMAIN ResolvedResources :
      LET cs == Contributions(key) IN
      /\ (\A i \in 1..Len(cs) : cs[i].t = "list") =>
           ResolvedResources[key] =
             [t |-> "list", items |-> Concat([i \in 1..Len(cs) |-> cs[i].items])]
      /\ (\A i \in 1..Len(cs) : cs[i].t \in {"str", "none"}) =>
           ResolvedResources[key] = cs[Len(cs)]

-----------------------------------------------------------------------------
(* the merge rule on values: source's keys win over, are appended to or    *)
(* are merged into target's                                                *)
RECURSIVE MergedValue(_, _)
MergedValue(target, source) ==
  [t |-> "dict",
   m |-> [key \in DOMAIN target.m \cup DOMAIN source.m |->
            IF key \notin DOMAIN source.m THEN target.m[key]
            ELSE IF key \notin DOMAIN target.m THEN source.m[key]
            ELSE IF target.m[key].t = "list" /\ source.m[key].t = "list"
                 THEN [t |-> "list", items |-> target.m[key].items \o source.m[key].items]
            ELSE IF target.m[key].t = "dict" /\ source.m[key].t = "dict"
                 THEN MergedValue(target.m[key], source.m[key])
            ELSE source.m[key]]]

(* C4: _merge_resources(target, source) leaves in target, for every key of *)
(* source, the source value if the key was absent, target's list followed  *)
(* by source's list, the recursive merge of two mappings, and otherwise    *)
(* the source value; the other keys of target keep their values.           *)
C4_MergeRule ==
  \A i \in 1..Len(hist.merges) :
    hist.merges[i].after = MergedValue(hist.merges[i].target, hist.merges[i].source)

-----------------------------------------------------------------------------
(* C5: a document without an include key is returned as it is, nothing     *)
(* added, resolved or read, and load_account_configs stores that tree as   *)
(* full_config.                                                            *)
C5_NoIncludeIdentity ==
  /\ (DirectReturned /\ ~HasInclude) =>
       /\ ret = config
       /\ Val(heap, ret) = TreeVal(disk[<<"d">>])
       /\ Len(heap) = Containers(disk[<<"d">>])
  /\ \A i \in 1..Len(account_configs) :
       ~Has(disk[account_configs[i].config_path], k_include) =>
         Val(heap, account_configs[i].full_config) = TreeVal(disk[account_configs[i].config_path])

(* a document with neither include nor resources went through the call *)
C5_Witness ==
  DirectReturned /\ ~HasInclude /\ ~Has(heap[config.a], k_resources) /\ ret = config

-----------------------------------------------------------------------------
(* C6: two calls of _process_includes on the same document return equal    *)
(* results, and the document, its resources included, is after each call   *)
(* what it was before the first.                                           *)
C6_CallsIndependent ==
  DirectReturned =>
    /\ Val(heap, config) = hist.loaded
    /\ Val(heap, ret) = hist.first

(* the outcome of indexing the bound list, for a resolved indexed reference *)
Indexed == client = "ref" /\ pc = "resolved" /\ tag.is_list_ref /\ Has(bindings, tag.v)
Bound == Get(bindings, tag.v)

(* C7: an indexed reference on a bound name raises TypeError when the      *)
(* value is not a list, raises IndexError whenever the index is at least   *)
(* the length of the list, and succeeds with the element at position i     *)
(* whenever i = length - 1.                                                *)
C7_IndexedRef ==
  Indexed =>
    /\ ~IsList(heap, Bound) => out.exc.type = "TypeError"
    /\ IsList(heap, Bound) =>
         LET items == heap[Bound.a].items IN
         /\ tag.index >= Len(items) => out.exc.type = "IndexError"
         /\ tag.index = Len(items) - 1 =>
              /\ out.exc = NoExc
              /\ tag.index + 1 \in DOMAIN items
              /\ out.v = items[tag.index + 1]

(* C8: a reference, indexed or not, to a name that is not a key of the     *)
(* variables raises KeyError; no value is returned, and the index and the  *)
(* type of anything else play no part.                                     *)
C8_UnboundRaises ==
  (client = "ref" /\ pc = "resolved" /\ ~Has(bindings, tag.v)) =>
    (out.exc.type = "KeyError" /\ out.v = None)

(* an indexed reference to an unbound name, next to a bound one, was resolved *)
C8_Witness ==
  /\ client = "ref" /\ pc = "resolved" /\ tag.is_list_ref
  /\ ~Has(bindings, tag.v) /\ Len(bindings.ks) >= 1
  /\ out.exc.type = "KeyError"

SubNames == { <<"e">>, <<"r">>, <<"u">> }

(* the text SubTag.resolve makes of a text under the variables at hand *)
Substituted(text) == SubLoop(heap, text, bindings, 1)

RECURSIVE Simultaneous(_)
(* every placeholder of a bound name replaced by the string form of its    *)
(* value, in one pass from the left over the template                      *)
Simultaneous(text) ==
  IF text = <<>> THEN <<>>
  ELSE LET here == {i \in 1..Len(bindings.ks) : StartsWith(text, Placeholder(bindings.ks[i]))} IN
       IF here = {} THEN <<Head(text)>> \o Simultaneous(Tail(text))
       ELSE LET i == CHOOSE n \in here : TRUE IN
            py_str(heap, bindings.vs[i])
              \o Simultaneous(SubSeq(text, Len(Placeholder(bindings.ks[i])) + 1, Len(text)))

BoundNames == {n \in SubNames : Has(bindings, n)}
HasPlaceholder(text, names) == \E n \in names : Matches(text, Placeholder(n)) # {}

(* C9: SubTag.resolve raises nothing; every placeholder of an unbound name *)
(* stands in the output as it stood in the template, between the           *)
(* substituted text before it and the substituted text after it; and the   *)
(* placeholders of the bound names are replaced by the string forms of     *)
(* their values (the output is the simultaneous replacement, whenever      *)
(* that replacement leaves no placeholder of a bound name behind).         *)
C9_SubReplaces ==
  (client = "sub" /\ pc = "resolved") =>
    /\ out.exc = NoExc /\ out.v.t = "str"
    /\ \A x \in SubNames \ BoundNames : \A i \in Matches(tag.v, Placeholder(x)) :
         out.v.v = Substituted(SubSeq(tag.v, 1, i - 1)) \o Placeholder(x)
                     \o Substituted(SubSeq(tag.v, i + Len(Placeholder(x)), Len(tag.v)))
    /\ ~HasPlaceholder(Simultaneous(tag.v), BoundNames) => out.v.v = Simultaneous(tag.v)

(* a template with a placeholder of a bound and of an unbound name was resolved *)
C9_Witness ==
  /\ client = "sub" /\ pc = "resolved" /\ out.exc = NoExc
  /\ HasPlaceholder(tag.v, BoundNames)
  /\ HasPlaceholder(tag.v, SubNames \ BoundNames)
  /\ HasPlaceholder(out.v.v, SubNames \ BoundNames)
  /\ out.v.v # tag.v


-----------------------------------------------------------------------------
RECURSIVE run_includes(_, _, _, _, _)
(* the exception the loop of _process_includes ends with, from include i on *)
run_includes(h, files, cfg, res, i) ==
  IF i > Len(IncludeList(h, cfg)) THEN NoExc
  ELSE LET s == include_step(h, files, cfg, res, i) IN
       IF s.exc # NoExc THEN s.exc ELSE run_includes(s.h, files, cfg, res, i + 1)

(* whether loading file f and resolving its includes, on its own, succeeds *)
Resolves(f) ==
  LET ld == load_yaml_file(<<>>, disk, f)
      b == begin_includes(ld.h, ld.v)
  IN b.identity \/ run_includes(b.h, disk, ld.v, b.result, 1) = NoExc

Directory == DOMAIN disk \cap DOMAIN AccountFiles

(* C10: if one file of the directory fails to load or resolve,             *)
(* load_account_configs raises and returns no record, wherever the file    *)
(* stands in the scan and however many files were stored before it;        *)
(* otherwise it returns one record per file.                               *)
C10_FailFast ==
  client = "aggregate" =>
    /\ (\E f \in Directory : ~Resolves(f)) => (returned = None /\ pc # "done")
    /\ pc = "raised" => (returned = None /\ \E f \in Directory : ~Resolves(f))
    /\ pc = "done" => Len(returned.records) = Cardinality(Directory)

(* the scan failed after a record had been stored *)
C10_Witness ==
  client = "aggregate" /\ pc = "raised" /\ Len(account_configs) >= 1 /\ returned = None

-----------------------------------------------------------------------------
RECURSIVE TagFree(_)
(* no SubTag and no RefTag object anywhere in a value *)
TagFree(val) ==
  CASE val.t = "list" -> \A i \in 1..Len(val.items) : TagFree(val.items[i])
    [] val.t = "dict" -> \A key \in DOMAIN val.m : TagFree(val.m[key])
    [] OTHER -> val.t \notin {"sub", "ref"}

(* C11: every record load_account_configs returns has a full_config in     *)
(* which no !Sub and no !Ref object is left, wherever the tag came from:   *)
(* a fragment, the document's own resources or an include-site input.      *)
C11_AllTagsResolved ==
  (client = "aggregate" /\ pc = "done") =>
    \A i \in 1..Len(returned.records) :
      TagFree(Val(heap, returned.records[i].full_config))

-----------------------------------------------------------------------------
Kind(val) == IF val.t \in {"list", "dict"} THEN val.t ELSE "scalar"

RECURSIVE Clash(_, _, _)
(* under some key, at any depth, T and B hold two lists or two mappings    *)
(* and A holds a value of another type                                     *)
Clash(T, A, B) ==
  \E key \in DOMAIN T.m \cap DOMAIN A.m \cap DOMAIN B.m :
    \/ /\ Kind(T.m[key]) = Kind(B.m[key])
       /\ Kind(T.m[key]) # "scalar"
       /\ Kind(A.m[key]) # Kind(T.m[key])
    \/ /\ Kind(T.m[key]) = "dict" /\ Kind(A.m[key]) = "dict" /\ Kind(B.m[key]) = "dict"
       /\ Clash(T.m[key], A.m[key], B.m[key])

LeftMerged == Val(heap, Ptr(operands.T))
RightMerged == Val(heap, Ptr(operands.T2))

(* C12: merging A into T and then B into the result gives the mapping that *)
(* merging B into A and then the combined mapping into T gives, for all    *)
(* T, A and B, values of different types under a shared key included.      *)
C12_Associative ==
  (client = "merge" /\ pc = "merged") => LeftMerged = RightMerged

(* C12 as amended: the two orders give the same mapping unless, under some *)
(* key, T and B hold two lists or two mappings and A holds a value of      *)
(* another type.                                                           *)
C12_AssociativeSameKind ==
  (client = "merge" /\ pc = "merged" /\ ~Clash(hist.T, hist.A, hist.B)) =>
    LeftMerged = RightMerged

(* three mappings sharing a key were merged both ways: lists were          *)
(* concatenated in order, or a value of another type was overwritten       *)
C12_Witness ==
  /\ client = "merge" /\ pc = "merged" /\ ~Clash(hist.T, hist.A, hist.B)
  /\ \E key \in DOMAIN hist.T.m \cap DOMAIN hist.A.m \cap DOMAIN hist.B.m :
       /\ Kind(hist.T.m[key]) = "list" /\ Kind(hist.A.m[key]) = "list"
       /\ Kind(hist.B.m[key]) = "list"
       /\ LeftMerged.m[key].items =
            hist.T.m[key].items \o hist.A.m[key].items \o hist.B.m[key].items
  /\ LeftMerged = RightMerged

-----------------------------------------------------------------------------
(* C13: a RefTag constructed from any scalar text that carries an index    *)
(* (is_list_ref) has an index of at least 0 and a name that is not the     *)
(* empty string.                                                           *)
C13_IndexedRefWellFormed ==
  (client = "ref" /\ pc \in {"tag", "resolved"} /\ tag.is_list_ref) =>
    (tag.index >= 0 /\ tag.v # <<>>)

-----------------------------------------------------------------------------
(* the bound names whose value, in its string form, holds the placeholder  *)
(* of a bound name                                                         *)
Nesting ==
  {n \in BoundNames : HasPlaceholder(py_str(heap, Get(bindings, n)), BoundNames)}

(* C14: when a placeholder of the template is bound to a value whose       *)
(* string form holds the placeholder of a bound name, the output holds the *)
(* value's string form as it is at that place: the output is the one-pass  *)
(* replacement of the template, in whatever order the variables come.      *)
C14_NoResubstitution ==
  (client = "sub" /\ pc = "resolved" /\ HasPlaceholder(tag.v, Nesting)) =>
    out.v.v = Simultaneous(tag.v)

-----------------------------------------------------------------------------
(* the names a document may bind or a fragment may mention *)
Names == { <<"e">>, <<"o">>, <<"z">>, <<"u">> }

RECURSIVE RefNames(_)
(* the names the !Ref nodes of a tree refer to *)
RefNames(val) ==
  CASE val.t = "list" -> UNION {RefNames(val.items[i]) : i \in 1..Len(val.items)}
    [] val.t = "dict" -> UNION {RefNames(val.m[key]) : key \in DOMAIN val.m}
    [] val.t = "ref" -> {val.v}
    [] OTHER -> {}

RECURSIVE Verbatim(_, _, _)
(* wherever the tree holds a !Sub, the resolved value holds a string with  *)
(* as many placeholders of each of the names as the template               *)
Verbatim(tree, resolved, names) ==
  CASE tree.t = "list" ->
         \A i \in 1..Len(tree.items) : Verbatim(tree.items[i], resolved.items[i], names)
    [] tree.t = "dict" ->
         \A key \in DOMAIN tree.m : Verbatim(tree.m[key], resolved.m[key], names)
    [] tree.t = "sub" ->
         /\ resolved.t = "str"
         /\ \A x \in names : Cardinality(Matches(resolved.v, Placeholder(x)))
                               = Cardinality(Matches(tree.v, Placeholder(x)))
    [] OTHER -> TRUE

FragmentResources(j) == TreeVal(Get(disk[FragmentPath(j)], k_resources))
BoundElsewhere(j) ==
  UNION {BoundAt(i) : i \in (1..Len(Get(CurrentFile, k_include).items)) \ {j}} \ BoundAt(j)

(* C15: an include is resolved under its own inputs only.  An include      *)
(* that went through refers with !Ref to names of its own inputs only and  *)
(* has its required inputs among them, and the placeholders of every other *)
(* name stand verbatim in its !Sub strings; an include whose fragment      *)
(* refers to, or requires, a name that only another include binds fails    *)
(* with KeyError, or with the missing inputs error.                        *)
C15_BindingsScoped ==
  InLoop =>
    /\ \A j \in 1..Len(hist.merges) :
         /\ RefNames(FragmentResources(j)) \subseteq BoundAt(j)
         /\ Required(j) \subseteq BoundAt(j)
         /\ Verbatim(FragmentResources(j), hist.merges[j].source, Names \ BoundAt(j))
    /\ (pc = "raised" /\ WellFormed(k)) =>
         /\ (Required(k) \cap BoundElsewhere(k) # {}) => exc.what = "missing_required_inputs"
         /\ (Required(k) \subseteq BoundAt(k)
               /\ RefNames(FragmentResources(k)) \cap BoundElsewhere(k) # {}
               /\ RefNames(FragmentResources(k)) \cap BoundAt(k) = {}) =>
              exc.type = "KeyError"

(* the second include refers to a name that the first include binds: it    *)
(* fails with KeyError                                                     *)
C15_Witness ==
  /\ pc = "raised" /\ k = 2 /\ exc.type = "KeyError"
  /\ RefNames(FragmentResources(2)) \cap BoundAt(1) # {}
  /\ Len(hist.merges) = 1

-----------------------------------------------------------------------------
(* the keys under which a merge appended a list to a list *)
Appended(merge) ==
  {key \in DOMAIN merge.target.m \cap DOMAIN merge.source.m :
     merge.target.m[key].t = "list" /\ merge.source.m[key].t = "list"}

(* C16: a merge that appends a list under one key of the resources leaves  *)
(* the value under every key the include does not contribute as it was,    *)
(* and the include list of the document, input values included, stays     *)
(* what it was when _process_includes was called.                          *)
C16_NoAliasing ==
  (InLoop \/ DirectReturned \/ pc = "store") =>
    /\ \A i \in 1..Len(hist.merges) :
         Appended(hist.merges[i]) # {} =>
           \A key \in DOMAIN hist.merges[i].target.m \ DOMAIN hist.merges[i].source.m :
             hist.merges[i].after.m[key] = hist.merges[i].target.m[key]
    /\ HasInclude => Val(heap, config).m[k_include] = hist.before.m[k_include]

====
